---- MODULE Spec2Model ----
(***************************************************************************)
(* A model of app/tool/pylsp.py: the LSP client session (framing, request  *)
(* ids, the bounded wait for a reply) and the tool's execute method.       *)
(*                                                                         *)
(* Python values are tagged records: None, int, str (a sequence of code    *)
(* points) and dict (a sequence of <<key, value>> pairs in insertion       *)
(* order).  A code point or a byte is a one-character string; the one      *)
(* non-ASCII code point of the model is written "U+00E9" and its UTF-8     *)
(* bytes "xC3", "xA9".                                                     *)
(***************************************************************************)
EXTENDS Integers, Sequences, FiniteSets, TLC

-----------------------------------------------------------------------------
(* Python values *)

PyNone == [t |-> "null"]
PyInt(n) == [t |-> "int", v |-> n]
PyStr(s) == [t |-> "str", v |-> s]
PyDict(pairs) == [t |-> "obj", v |-> pairs]

IsDict(x) == x.t = "obj"

RECURSIVE HasKey(_, _)
HasKey(pairs, k) ==
  IF pairs = <<>> THEN FALSE
  ELSE IF Head(pairs)[1] = k THEN TRUE ELSE HasKey(Tail(pairs), k)

RECURSIVE Lookup(_, _, _)
Lookup(pairs, k, default) ==
  IF pairs = <<>> THEN default
  ELSE IF Head(pairs)[1] = k THEN Head(pairs)[2]
  ELSE Lookup(Tail(pairs), k, default)

(* dict.get(k, default) *)
Get(d, k, default) == Lookup(d.v, k, default)

(* d[k] = x : replaces the value of an existing key in place, else appends *)
Put(pairs, k, x) ==
  IF HasKey(pairs, k)
  THEN [i \in 1..Len(pairs) |->
          IF pairs[i][1] = k THEN <<k, x>> ELSE pairs[i]]
  ELSE Append(pairs, <<k, x>>)

-----------------------------------------------------------------------------
(* Characters, decimal numbers, UTF-8 *)

NonAscii == {"U+00E9"}

DigitChars == <<"0", "1", "2", "3", "4", "5", "6", "7", "8", "9">>
IsDigit(c) == \E i \in 1..10 : DigitChars[i] = c
DigitVal(c) == (CHOOSE i \in 1..10 : DigitChars[i] = c) - 1

(* str(n) of a non-negative int, as in the f-string of _send *)
RECURSIVE IntToStr(_)
IntToStr(n) ==
  IF n < 10 THEN <<DigitChars[n + 1]>>
  ELSE Append(IntToStr(n \div 10), DigitChars[(n % 10) + 1])

RECURSIVE DigitsVal(_, _)
DigitsVal(s, acc) ==
  IF s = <<>> THEN acc
  ELSE DigitsVal(Tail(s), 10 * acc + DigitVal(Head(s)))

AllDigits(s) == s # <<>> /\ \A i \in 1..Len(s) : IsDigit(s[i])

(* int(s) of a stripped str: an optional sign and decimal digits, else ValueError *)
IntOfStr(s) ==
  IF AllDigits(s) THEN [ok |-> TRUE, v |-> DigitsVal(s, 0)]
  ELSE IF s # <<>> /\ s[1] = "-" /\ AllDigits(Tail(s))
       THEN [ok |-> TRUE, v |-> 0 - DigitsVal(Tail(s), 0)]
  ELSE IF s # <<>> /\ s[1] = "+" /\ AllDigits(Tail(s))
       THEN [ok |-> TRUE, v |-> DigitsVal(Tail(s), 0)]
  ELSE [ok |-> FALSE]

(* the UTF-8 bytes of one code point *)
Utf8Char(c) == IF c = "U+00E9" THEN <<"xC3", "xA9">> ELSE <<c>>

(* the bytes of s[lo..hi], halving the range to keep the evaluation shallow *)
RECURSIVE Utf8EncodeRange(_, _, _)
Utf8EncodeRange(s, lo, hi) ==
  IF lo > hi THEN <<>>
  ELSE IF lo = hi THEN Utf8Char(s[lo])
  ELSE Utf8EncodeRange(s, lo, (lo + hi) \div 2)
       \o Utf8EncodeRange(s, ((lo + hi) \div 2) + 1, hi)

(* str.encode(): UTF-8 *)
Utf8Encode(s) == Utf8EncodeRange(s, 1, Len(s))

(* the code point that byte i of b completes: the second byte of a two-byte *)
(* sequence yields it, its first byte yields nothing                         *)
Utf8At(b, i) ==
  IF b[i] = "xC3" THEN <<>>
  ELSE IF b[i] = "xA9" THEN <<"U+00E9">>
  ELSE <<b[i]>>

Utf8Valid(b) ==
  \A i \in 1..Len(b) :
     /\ b[i] = "xC3" => (i < Len(b) /\ b[i + 1] = "xA9")
     /\ b[i] = "xA9" => (i > 1 /\ b[i - 1] = "xC3")

RECURSIVE Utf8DecodeRange(_, _, _)
Utf8DecodeRange(b, lo, hi) ==
  IF lo > hi THEN <<>>
  ELSE IF lo = hi THEN Utf8At(b, lo)
  ELSE Utf8DecodeRange(b, lo, (lo + hi) \div 2)
       \o Utf8DecodeRange(b, ((lo + hi) \div 2) + 1, hi)

(* bytes.decode(): UTF-8, [ok |-> FALSE] for UnicodeDecodeError *)
Utf8Decode(b) ==
  IF Utf8Valid(b) THEN [ok |-> TRUE, v |-> Utf8DecodeRange(b, 1, Len(b))]
  ELSE [ok |-> FALSE]

Whitespace == {" ", "\t", "\r", "\n"}

RECURSIVE LStrip(_)
LStrip(s) ==
  IF s # <<>> /\ Head(s) \in Whitespace THEN LStrip(Tail(s)) ELSE s

RECURSIVE RStrip(_)
RStrip(s) ==
  IF s # <<>> /\ s[Len(s)] \in Whitespace
  THEN RStrip(SubSeq(s, 1, Len(s) - 1)) ELSE s

(* str.strip() *)
Strip(s) == RStrip(LStrip(s))

StartsWith(s, p) == Len(s) >= Len(p) /\ SubSeq(s, 1, Len(p)) = p
EndsWith(s, p) == Len(s) >= Len(p) /\ SubSeq(s, Len(s) - Len(p) + 1, Len(s)) = p
Drop(s, n) == SubSeq(s, n + 1, Len(s))

-----------------------------------------------------------------------------
(* json.dumps *)

(* the escapes of json.dumps with ensure_ascii=False: code points above    *)
(* ASCII go out as they are                                                *)
EscapeCharRaw(c) ==
  CASE c = "\"" -> <<"\\", "\"">>
    [] c = "\\" -> <<"\\", "\\">>
    [] c = "\n" -> <<"\\", "n">>
    [] c = "\r" -> <<"\\", "r">>
    [] c = "\t" -> <<"\\", "t">>
    [] OTHER -> <<c>>

(* the escapes of json.dumps with ensure_ascii=True *)
EscapeChar(c) ==
  CASE c = "\"" -> <<"\\", "\"">>
    [] c = "\\" -> <<"\\", "\\">>
    [] c = "\n" -> <<"\\", "n">>
    [] c = "\r" -> <<"\\", "r">>
    [] c = "\t" -> <<"\\", "t">>
    [] c = "U+00E9" -> <<"\\", "u", "0", "0", "e", "9">>
    [] OTHER -> <<c>>

RECURSIVE EscapeRange(_, _, _)
EscapeRange(s, lo, hi) ==
  IF lo > hi THEN <<>>
  ELSE IF lo = hi THEN EscapeChar(s[lo])
  ELSE EscapeRange(s, lo, (lo + hi) \div 2)
       \o EscapeRange(s, ((lo + hi) \div 2) + 1, hi)

Quote(s) == <<"\"">> \o EscapeRange(s, 1, Len(s)) \o <<"\"">>

RECURSIVE Spaces(_)
Spaces(n) == IF n = 0 THEN <<>> ELSE Append(Spaces(n - 1), " ")

(* json.dumps(x) when indent = 0 - 1 stands for indent=None, and            *)
(* json.dumps(x, indent=indent) otherwise; level is the nesting depth.     *)
RECURSIVE DumpsAt(_, _, _)
RECURSIVE DumpsItems(_, _, _)
DumpsItems(pairs, indent, level) ==
  LET item == Quote(pairs[1][1]) \o <<":", " ">>
              \o DumpsAt(pairs[1][2], indent, level)
      sep == IF indent < 0 THEN <<",", " ">>
             ELSE <<",", "\n">> \o Spaces(indent * level)
  IN IF Len(pairs) = 1 THEN item
     ELSE item \o sep \o DumpsItems(Tail(pairs), indent, level)

DumpsAt(x, indent, level) ==
  CASE x.t = "null" -> <<"n", "u", "l", "l">>
    [] x.t = "int" ->
         IF x.v < 0 THEN <<"-">> \o IntToStr(0 - x.v) ELSE IntToStr(x.v)
    [] x.t = "str" -> Quote(x.v)
    [] x.t = "obj" ->
         IF x.v = <<>> THEN <<"{", "}">>
         ELSE IF indent < 0
              THEN <<"{">> \o DumpsItems(x.v, indent, level + 1) \o <<"}">>
         ELSE <<"{", "\n">> \o Spaces(indent * (level + 1))
              \o DumpsItems(x.v, indent, level + 1)
              \o <<"\n">> \o Spaces(indent * level) \o <<"}">>

Dumps(x) == DumpsAt(x, 0 - 1, 0)
DumpsIndent(x, indent) == DumpsAt(x, indent, 0)

-----------------------------------------------------------------------------
(* json.loads: objects, strings, integers and null *)

Fail == [ok |-> FALSE]
Ok(x, rest) == [ok |-> TRUE, v |-> x, rest |-> rest]

HexChars == <<"0", "1", "2", "3", "4", "5", "6", "7", "8", "9",
              "a", "b", "c", "d", "e", "f", "A", "B", "C", "D", "E", "F">>
IsHex(c) == \E i \in 1..22 : HexChars[i] = c

(* the code point of \uXXXX; "U+FFFF" stands for every code point other than *)
(* the one the model names                                                   *)
CodePointOf(h) ==
  IF h \in {<<"0", "0", "e", "9">>, <<"0", "0", "E", "9">>}
  THEN "U+00E9" ELSE "U+FFFF"

RECURSIVE ScanString(_, _)
ScanString(s, acc) ==
  IF s = <<>> THEN Fail
  ELSE LET c == Head(s) IN
    CASE c = "\"" -> Ok(PyStr(acc), Tail(s))
      [] c = "\\" ->
           IF Len(s) < 2 THEN Fail
           ELSE LET e == s[2] IN
             CASE e \in {"\"", "\\", "/"} -> ScanString(Drop(s, 2), Append(acc, e))
               [] e = "n" -> ScanString(Drop(s, 2), Append(acc, "\n"))
               [] e = "r" -> ScanString(Drop(s, 2), Append(acc, "\r"))
               [] e = "t" -> ScanString(Drop(s, 2), Append(acc, "\t"))
               [] e = "u" ->
                    IF Len(s) >= 6 /\ \A i \in 3..6 : IsHex(s[i])
                    THEN ScanString(Drop(s, 6),
                                    Append(acc, CodePointOf(SubSeq(s, 3, 6))))
                    ELSE Fail
               [] OTHER -> Fail
      [] c \in {"\n", "\r", "\t"} -> Fail
      [] OTHER -> ScanString(Tail(s), Append(acc, c))

RECURSIVE TakeDigits(_)
TakeDigits(s) ==
  IF s # <<>> /\ IsDigit(Head(s)) THEN <<Head(s)>> \o TakeDigits(Tail(s)) ELSE <<>>

(* an optional minus sign, then 0 or a digit string without a leading 0; *)
(* a fraction or an exponent is outside the model                        *)
ScanNumber(s) ==
  LET neg == s # <<>> /\ Head(s) = "-"
      u == IF neg THEN Tail(s) ELSE s
      ds == IF u # <<>> /\ Head(u) = "0" THEN <<"0">> ELSE TakeDigits(u)
      n == DigitsVal(ds, 0)
  IN IF ds = <<>> THEN Fail
     ELSE Ok(PyInt(IF neg THEN 0 - n ELSE n), Drop(u, Len(ds)))

RECURSIVE ScanValue(_)
RECURSIVE ScanMembers(_, _)

(* s starts at a key's opening quote; pairs are the members read so far *)
ScanMembers(s, pairs) ==
  IF s = <<>> \/ Head(s) # "\"" THEN Fail
  ELSE LET k == ScanString(Tail(s), <<>>) IN
    IF ~k.ok THEN Fail
    ELSE LET s1 == LStrip(k.rest) IN
      IF s1 = <<>> \/ Head(s1) # ":" THEN Fail
      ELSE LET x == ScanValue(LStrip(Tail(s1))) IN
        IF ~x.ok THEN Fail
        ELSE LET s2 == LStrip(x.rest)
                 ps == Put(pairs, k.v.v, x.v)
             IN IF s2 = <<>> THEN Fail
                ELSE IF Head(s2) = "}" THEN Ok(PyDict(ps), Tail(s2))
                ELSE IF Head(s2) = "," THEN ScanMembers(LStrip(Tail(s2)), ps)
                ELSE Fail

ScanValue(s) ==
  IF s = <<>> THEN Fail
  ELSE LET c == Head(s) IN
    CASE c = "\"" -> ScanString(Tail(s), <<>>)
      [] c = "{" ->
           LET s1 == LStrip(Tail(s)) IN
             IF s1 # <<>> /\ Head(s1) = "}" THEN Ok(PyDict(<<>>), Tail(s1))
             ELSE ScanMembers(s1, <<>>)
      [] c = "n" ->
           IF StartsWith(s, <<"n", "u", "l", "l">>) THEN Ok(PyNone, Drop(s, 4))
           ELSE Fail
      [] c = "-" \/ IsDigit(c) -> ScanNumber(s)
      [] OTHER -> Fail

(* json.loads(body) of bytes: [ok |-> FALSE] stands for the exception raised *)
Loads(body) ==
  LET d == Utf8Decode(body) IN
    IF ~d.ok THEN Fail
    ELSE LET x == ScanValue(LStrip(d.v)) IN
      IF ~x.ok THEN Fail
      ELSE IF LStrip(x.rest) # <<>> THEN Fail
      ELSE [ok |-> TRUE, v |-> x.v]

-----------------------------------------------------------------------------
(* The str literals of the source, as sequences of code points *)

Chars(s) ==
  CASE s = "jsonrpc" ->
         <<"j", "s", "o", "n", "r", "p", "c">>
    [] s = "2.0" ->
         <<"2", ".", "0">>
    [] s = "method" ->
         <<"m", "e", "t", "h", "o", "d">>
    [] s = "params" ->
         <<"p", "a", "r", "a", "m", "s">>
    [] s = "id" ->
         <<"i", "d">>
    [] s = "initialize" ->
         <<"i", "n", "i", "t", "i", "a", "l", "i", "z", "e">>
    [] s = "initialized" ->
         <<"i", "n", "i", "t", "i", "a", "l", "i", "z", "e", "d">>
    [] s = "processId" ->
         <<"p", "r", "o", "c", "e", "s", "s", "I", "d">>
    [] s = "rootUri" ->
         <<"r", "o", "o", "t", "U", "r", "i">>
    [] s = "capabilities" ->
         <<"c", "a", "p", "a", "b", "i", "l", "i", "t", "i", "e", "s">>
    [] s = "textDocument/didOpen" ->
         <<"t", "e", "x", "t", "D", "o", "c", "u", "m", "e", "n", "t", "/", "d", "i", "d", "O", "p", "e", "n">>
    [] s = "textDocument" ->
         <<"t", "e", "x", "t", "D", "o", "c", "u", "m", "e", "n", "t">>
    [] s = "uri" ->
         <<"u", "r", "i">>
    [] s = "languageId" ->
         <<"l", "a", "n", "g", "u", "a", "g", "e", "I", "d">>
    [] s = "python" ->
         <<"p", "y", "t", "h", "o", "n">>
    [] s = "version" ->
         <<"v", "e", "r", "s", "i", "o", "n">>
    [] s = "text" ->
         <<"t", "e", "x", "t">>
    [] s = "textDocument/hover" ->
         <<"t", "e", "x", "t", "D", "o", "c", "u", "m", "e", "n", "t", "/", "h", "o", "v", "e", "r">>
    [] s = "textDocument/definition" ->
         <<"t", "e", "x", "t", "D", "o", "c", "u", "m", "e", "n", "t", "/", "d", "e", "f", "i", "n", "i", "t", "i", "o", "n">>
    [] s = "position" ->
         <<"p", "o", "s", "i", "t", "i", "o", "n">>
    [] s = "line" ->
         <<"l", "i", "n", "e">>
    [] s = "character" ->
         <<"c", "h", "a", "r", "a", "c", "t", "e", "r">>
    [] s = "result" ->
         <<"r", "e", "s", "u", "l", "t">>
    [] s = "Content-Length" ->
         <<"C", "o", "n", "t", "e", "n", "t", "-", "L", "e", "n", "g", "t", "h">>
    [] s = "Content-Length: " ->
         <<"C", "o", "n", "t", "e", "n", "t", "-", "L", "e", "n", "g", "t", "h", ":", " ">>
    [] s = "file://" ->
         <<"f", "i", "l", "e", ":", "/", "/">>
    [] s = "contents" ->
         <<"c", "o", "n", "t", "e", "n", "t", "s">>
    [] s = "int" ->
         <<"i", "n", "t">>
    [] s = "hover" ->
         <<"h", "o", "v", "e", "r">>
    [] s = "definition" ->
         <<"d", "e", "f", "i", "n", "i", "t", "i", "o", "n">>
    [] s = "rename" ->
         <<"r", "e", "n", "a", "m", "e">>
    [] s = "window/logMessage" ->
         <<"w", "i", "n", "d", "o", "w", "/", "l", "o", "g", "M", "e", "s", "s", "a", "g", "e">>
    [] s = "error" ->
         <<"e", "r", "r", "o", "r">>
    [] s = "code" ->
         <<"c", "o", "d", "e">>
    [] s = "/w" ->
         <<"/", "w">>
    [] s = "/w/a.py" ->
         <<"/", "w", "/", "a", ".", "p", "y">>
    [] s = "/w/m.py" ->
         <<"/", "w", "/", "m", ".", "p", "y">>
    [] s = "/w/u.py" ->
         <<"/", "w", "/", "u", ".", "p", "y">>

CRLF == <<"\r", "\n">>
CRLFCRLF == <<"\r", "\n", "\r", "\n">>

-----------------------------------------------------------------------------
(* LSPClientSession._send: the payload and its frame *)

(* the payload dict of _send; id = PyNone leaves the "id" key out *)
Payload(method, params, id) ==
  PyDict(<<<<Chars("jsonrpc"), PyStr(Chars("2.0"))>>,
           <<Chars("method"), PyStr(method)>>,
           <<Chars("params"), params>>>>
         \o (IF id # PyNone THEN <<<<Chars("id"), id>>>> ELSE <<>>))

(* header = f"Content-Length: {len(body)}\r\n\r\n", len of the str *)
Header(body) == Chars("Content-Length: ") \o IntToStr(Len(body)) \o CRLFCRLF

(* the bytes handed to sendall: header.encode() + body.encode() *)
Frame(payload) ==
  LET body == Dumps(payload)
  IN Utf8Encode(Header(body)) \o Utf8Encode(body)

-----------------------------------------------------------------------------
(* LSPClientSession._wait_for: the frame reader *)

(* while not line.endswith(b"\r\n\r\n"): line += recv(1), for as long as   *)
(* the receive buffer buf has bytes                                        *)
(* the buffer has bytes: k is the number of bytes read, the least that      *)
(* makes line end with the terminator, or all of them when none does        *)
ReadHeader(line, buf) ==
  LET Ends(k) == EndsWith(line \o SubSeq(buf, 1, k), CRLFCRLF)
      stops == {k \in 0..Len(buf) : Ends(k)}
      k == IF stops = {} THEN Len(buf)
           ELSE CHOOSE i \in stops : \A j \in stops : i <= j
  IN [line |-> line \o SubSeq(buf, 1, k), buf |-> Drop(buf, k),
      done |-> stops # {}]

(* str.split(sep) for a separator whose occurrences cannot overlap, as     *)
(* "\r\n": the pieces between the places where sep stands                  *)
SepAt(s, sep) ==
  {i \in 1..(Len(s) - Len(sep) + 1) : SubSeq(s, i, i + Len(sep) - 1) = sep}

Split(s, sep) ==
  LET at == SepAt(s, sep)
      n == Cardinality(at)
      Nth(k) == CHOOSE i \in at : Cardinality({j \in at : j < i}) = k - 1
      First(k) == IF k = 1 THEN 1 ELSE Nth(k - 1) + Len(sep)
      Last(k) == IF k = n + 1 THEN Len(s) ELSE Nth(k) - 1
  IN [k \in 1..(n + 1) |-> SubSeq(s, First(k), Last(k))]

HasColon(l) == \E i \in 1..Len(l) : l[i] = ":"
FirstColon(l) == CHOOSE i \in 1..Len(l) : l[i] = ":" /\ \A j \in 1..(i - 1) : l[j] # ":"

(* for l in lines: if ":" in l: k, v = l.split(":", 1); headers[k.strip()] = v.strip() *)
RECURSIVE HeadersOf(_, _)
HeadersOf(lines, headers) ==
  IF lines = <<>> THEN headers
  ELSE LET l == Head(lines) IN
    IF HasColon(l)
    THEN LET i == FirstColon(l)
         IN HeadersOf(Tail(lines),
                      Put(headers, Strip(SubSeq(l, 1, i - 1)), Strip(Drop(l, i))))
    ELSE HeadersOf(Tail(lines), headers)

(* content_length = int(headers.get("Content-Length", 0)) of the header    *)
(* bytes read; [ok |-> FALSE] stands for the exception of decode() or int() *)
ContentLength(line) ==
  LET d == Utf8Decode(line) IN
    IF ~d.ok THEN Fail
    ELSE LET headers == HeadersOf(Split(d.v, CRLF), <<>>) IN
      IF HasKey(headers, Chars("Content-Length"))
      THEN IntOfStr(Lookup(headers, Chars("Content-Length"), <<>>))
      ELSE [ok |-> TRUE, v |-> 0]

(* body = recv(content_length) when the receive buffer holds buf: at most  *)
(* content_length bytes, fewer when fewer have arrived                      *)
Min(a, b) == IF a < b THEN a ELSE b
RecvUpTo(buf, n) == [data |-> SubSeq(buf, 1, Min(n, Len(buf))),
                     buf |-> Drop(buf, Min(n, Len(buf)))]

(* a reader that takes any frame carrying an id for the reply *)
IdMatchesAny(id, target) == id # PyNone

(* message.get("id") == target_id *)
IdMatches(id, target) == id = PyInt(target)

(* message = json.loads(body); message.get("id"): [ok |-> FALSE] stands for *)
(* the exception of loads or of .get on a value that is no dict            *)
MessageOf(body) ==
  LET m == Loads(body) IN
    IF ~m.ok THEN Fail
    ELSE IF ~IsDict(m.v) THEN Fail
    ELSE [ok |-> TRUE, v |-> m.v, id |-> Get(m.v, Chars("id"), PyNone)]

-----------------------------------------------------------------------------
(* Bounds of the model *)

(* execute calls in one behaviour *)
MaxCalls == 2
(* chunks the server writes in one behaviour *)
MaxChunks == 2
(* select rounds of 0.1 s that fit in the timeout of _wait_for *)
MaxPolls == 2
(* rounds a blocked read is followed beyond the timeout *)
MaxOverrun == 1

-----------------------------------------------------------------------------
(* The environment: callers, the filesystem, the language server *)

Tasks == {1, 2}

(* absolute paths of the files a caller names *)
Files == {"/w/a.py", "/w/m.py", "/w/u.py"}
ActionNames == {"hover", "definition", "rename"}
Positions == {<<15, 22>>}

(* os.path.exists(full_path) *)
Exists(f) == f \in {"/w/a.py", "/w/u.py"}
(* open(full_path).read() succeeds *)
Readable(f) == f = "/w/a.py"
(* the text read from the file *)
Content(f) == <<"x", "U+00E9", "\n">>

(* os.path.abspath('.') *)
Cwd == Chars("/w")

(* what the server means to say: a Response with a result, a Response      *)
(* without one, a Notification                                             *)
HoverResult == PyDict(<<<<Chars("contents"), PyStr(Chars("int"))>>>>)

Response(id, result) ==
  PyDict(<<<<Chars("jsonrpc"), PyStr(Chars("2.0"))>>,
           <<Chars("id"), PyInt(id)>>,
           <<Chars("result"), result>>>>)

ErrorResponse(id) ==
  PyDict(<<<<Chars("jsonrpc"), PyStr(Chars("2.0"))>>,
           <<Chars("id"), PyInt(id)>>,
           <<Chars("error"), PyDict(<<<<Chars("code"), PyInt(1)>>>>)>>>>)

Notification ==
  PyDict(<<<<Chars("jsonrpc"), PyStr(Chars("2.0"))>>,
           <<Chars("method"), PyStr(Chars("window/logMessage"))>>>>)

(* the server's frame of a message: Content-Length counts the body's bytes *)
ServerFrame(msg) ==
  LET body == Utf8Encode(Dumps(msg))
  IN Utf8Encode(Chars("Content-Length: ") \o IntToStr(Len(body)) \o CRLFCRLF)
     \o body

(* a frame whose header section has no Content-Length *)
NoLengthFrame(msg) ==
  <<"A", ":", " ", "b">> \o CRLFCRLF \o Utf8Encode(Dumps(msg))

(* the first bytes of a frame's header, after which the server stalls *)
PartialHeader == Utf8Encode(Chars("Content-Length: "))

(* a frame that arrives in two pieces, the second one its last body byte *)
FirstPart(msg) == SubSeq(ServerFrame(msg), 1, Len(ServerFrame(msg)) - 1)
LastPart(msg) == SubSeq(ServerFrame(msg), Len(ServerFrame(msg)), Len(ServerFrame(msg)))

(* The chunks the server may write.  msg is the message of a whole,        *)
(* well-formed frame and PyNone for any other chunk.                       *)
Chunk(bytes, msg) == [bytes |-> bytes, msg |-> msg]
WholeFrame(msg) == Chunk(ServerFrame(msg), msg)

Menu ==
  {WholeFrame(Response(1, PyDict(<<>>))),
   WholeFrame(Response(2, HoverResult)),
   WholeFrame(ErrorResponse(3)),
   WholeFrame(Notification),
   Chunk(NoLengthFrame(Response(2, HoverResult)), PyNone),
   Chunk(PartialHeader, PyNone),
   Chunk(FirstPart(Response(2, HoverResult)), PyNone),
   Chunk(LastPart(Response(2, HoverResult)), PyNone)}

-----------------------------------------------------------------------------
(* Results and exceptions *)

ToolResult(output, error) == [t |-> "ToolResult", output |-> output, error |-> error]
Raised(exc) == [t |-> "raised", exc |-> exc]
NoResult == [t |-> "none"]

ErrorText(prefix, detail) == [t |-> "text", prefix |-> prefix, detail |-> detail]

(* an execute without its except clause: the exception leaves the call *)
CatchNothing(exc) == Raised(exc)

(* except Exception as e: return ToolResult(error=f"LSP tool error: {str(e)}") *)
Catch(exc) == ToolResult(PyNone, ErrorText("LSP tool error: ", exc))

-----------------------------------------------------------------------------
(* State *)

VARIABLES
  session,      \* PythonLSPTool._session: "None" or "LSPClientSession"
  sock,         \* LSPClientSession.sock: "None" or "socket"
  session_id,   \* LSPClientSession._id
  peer,         \* the server's end: "none", "open", "closed" (FIN), "reset" (RST)
  inbuf,        \* bytes received and not yet read by recv
  sent,         \* the payloads handed to sendall, in order
  connects,     \* calls of socket.create_connection
  written,      \* chunks the server has written
  framed,       \* every chunk written so far is one whole well-formed frame
  stream,       \* the chunks written and not read before the current wait began
  calls,        \* execute calls begun
  frame,        \* per task: the locals of its execute call and of the _wait_for it runs
  ret,          \* per task: what its last execute call returned
  pre,          \* per task: its last call's arguments and the session as the call found it
  codec         \* a message on its way through _send's encoder and _wait_for's reader

vars == <<session, sock, session_id, peer, inbuf, sent, connects, written,
          framed, stream, calls, frame, ret, pre, codec>>

toolVars == <<session, sock, session_id, peer, inbuf, sent, connects, written,
              framed, stream, calls, frame, ret, pre>>

sessionVars == <<session, sock, session_id>>

(* pc: where the call stands; decoded: frames read in the current wait;     *)
(* elapsed: time.time() - start in select rounds; waited: what _wait_for    *)
(* returned.  A local that is dead is kept at its initial value.            *)
IdleFrame ==
  [pc |-> "idle", filepath |-> "", action |-> "", line_no |-> 0, character |-> 0,
   target_id |-> 0, caller |-> "none", elapsed |-> 0, decoded |-> 0,
   line |-> <<>>, content_length |-> 0, waited |-> PyNone]

(* no message is followed through the codec *)
NoCodec == [pc |-> "off"]

(* what a call ends with when the transport fails under _wait_for: the      *)
(* connection is reset, the header's Content-Length is no number, the body  *)
(* does not parse                                                           *)
TransportFailures ==
  {Catch("ConnectionResetError"), Catch("ValueError"), Catch("JSONDecodeError")}

(* the session as a call finds it; broken: the call that ended last ended   *)
(* in a transport failure after initialized had been sent                   *)
Snapshot(f, a) ==
  [filepath |-> f, action |-> a, session |-> session, sock |-> sock,
   session_id |-> session_id, connects |-> connects, sent |-> Len(sent),
   broken |-> /\ \E u \in DOMAIN ret : ret[u] \in TransportFailures
              /\ \E i \in 1..Len(sent) :
                    Get(sent[i], Chars("method"), PyNone) = PyStr(Chars("initialized"))]

Init ==
  /\ session = "None"
  /\ sock = "None"
  /\ session_id = 0
  /\ peer = "none"
  /\ inbuf = <<>>
  /\ sent = <<>>
  /\ connects = 0
  /\ written = 0
  /\ framed = TRUE
  /\ stream = <<>>
  /\ calls = 0
  /\ frame = [t \in Tasks |-> IdleFrame]
  /\ ret = [t \in Tasks |-> NoResult]
  /\ pre = [t \in Tasks |-> Snapshot("", "")]
  /\ codec = NoCodec

-----------------------------------------------------------------------------
(* The params of the messages the tool sends *)

(* start: {"processId": None, "rootUri": f"file://{cwd}", "capabilities": {}} *)
InitializeParams ==
  PyDict(<<<<Chars("processId"), PyNone>>,
           <<Chars("rootUri"), PyStr(Chars("file://") \o Cwd)>>,
           <<Chars("capabilities"), PyDict(<<>>)>>>>)

(* uri = f"file://{full_path}" *)
Uri(f) == Chars("file://") \o Chars(f)

(* a didOpen that counts the versions of a document *)
DidOpenParamsVersioned(f) ==
  PyDict(<<<<Chars("textDocument"),
             PyDict(<<<<Chars("uri"), PyStr(Uri(f))>>,
                      <<Chars("languageId"), PyStr(Chars("python"))>>,
                      <<Chars("version"), PyInt(calls)>>,
                      <<Chars("text"), PyStr(Content(f))>>>>)>>>>)

DidOpenParams(f) ==
  PyDict(<<<<Chars("textDocument"),
             PyDict(<<<<Chars("uri"), PyStr(Uri(f))>>,
                      <<Chars("languageId"), PyStr(Chars("python"))>>,
                      <<Chars("version"), PyInt(1)>>,
                      <<Chars("text"), PyStr(Content(f))>>>>)>>>>)

QueryParams(f, l, c) ==
  PyDict(<<<<Chars("textDocument"), PyDict(<<<<Chars("uri"), PyStr(Uri(f))>>>>)>>,
           <<Chars("position"),
             PyDict(<<<<Chars("line"), PyInt(l)>>,
                      <<Chars("character"), PyInt(c)>>>>)>>>>)

(* the method execute maps a supported action to *)
MethodOf(action) ==
  IF action = "hover" THEN Chars("textDocument/hover")
  ELSE Chars("textDocument/definition")

-----------------------------------------------------------------------------
(* Steps shared by the actions *)

(* execute returns r: its locals are gone *)
Return(t, r) ==
  /\ frame' = [frame EXCEPT ![t] = IdleFrame]
  /\ ret' = [ret EXCEPT ![t] = r]

(* _send raises: no socket (RuntimeError), or sendall fails on a connection *)
(* that was reset; after the peer's close alone sendall still succeeds      *)
SendFails == sock = "None" \/ peer = "reset"
SendError == IF sock = "None" THEN "RuntimeError" ELSE "OSError"

(* _send hands the frame of the payload to sendall *)
SendOk(method, params, id) ==
  /\ sock = "socket"
  /\ peer # "reset"
  /\ sent' = Append(sent, Payload(method, params, id))

(* the frame of a call that enters _wait_for(target): start = time.time() *)
EnterWait(fr, target, who) ==
  [fr EXCEPT !.pc = "poll", !.target_id = target, !.caller = who,
             !.elapsed = 0, !.decoded = 0, !.line = <<>>,
             !.content_length = 0, !.waited = PyNone]

(* a start that gives up when its wait returns None *)
LeaveWaitOrFail(fr, x) ==
  [fr EXCEPT !.pc = IF fr.caller = "start" /\ x # PyNone THEN "initialized"
                    ELSE "unwrap",
             !.waited = x, !.elapsed = 0, !.line = <<>>, !.content_length = 0]

(* the frame of a call whose _wait_for returns x *)
LeaveWait(fr, x) ==
  [fr EXCEPT !.pc = IF fr.caller = "start" THEN "initialized" ELSE "unwrap",
             !.waited = x, !.elapsed = 0, !.line = <<>>, !.content_length = 0]

(* the chunks not read when a wait begins *)
Unread(t) == SubSeq(stream, frame[t].decoded + 1, Len(stream))

(* select.select([sock], [], [], 0.1) finds the socket readable *)
SockReadable == inbuf # <<>> \/ peer \in {"closed", "reset"}

-----------------------------------------------------------------------------
(* PythonLSPTool.execute and the session methods it runs *)

(* a request that takes no new id *)
NextIdSame(id) == id

(* request, line 81: self._id += 1 *)
NextId(id) == id + 1

(* an execute that makes a session again until a handshake has completed *)
NeedsSessionUntilReady ==
  \A i \in 1..Len(sent) :
     Get(sent[i], Chars("method"), PyNone) # PyStr(Chars("initialized"))

(* an execute that makes a session again while none is connected *)
NeedsSessionUnconnected == sock = "None"

(* an execute that makes a session on every call *)
NeedsSessionAlways == TRUE

(* if self._session is None *)
NeedsSession == session = "None"

(* lines 116-121: the call, and the session made on first use: its         *)
(* constructor (lines 28-32) leaves sock None and _id 0                     *)
Execute(t, f, a, pos) ==
  /\ frame[t].pc = "idle"
  /\ calls < MaxCalls
  /\ calls' = calls + 1
  /\ pre' = [pre EXCEPT ![t] = Snapshot(f, a)]
  /\ ret' = [ret EXCEPT ![t] = NoResult]
  /\ session' = "LSPClientSession"
  /\ sock' = IF NeedsSession THEN "None" ELSE sock
  /\ session_id' = IF NeedsSession THEN 0 ELSE session_id
  /\ frame' = [frame EXCEPT ![t] =
                 [IdleFrame EXCEPT !.pc = IF NeedsSession THEN "connect"
                                          ELSE "exists",
                                   !.filepath = f, !.action = a,
                                   !.line_no = pos[1], !.character = pos[2]]]
  /\ UNCHANGED <<peer, inbuf, sent, connects, written, framed, stream, codec>>

(* start, lines 35-36: the connection is made, or create_connection raises *)
Connect(t) ==
  /\ frame[t].pc = "connect"
  /\ connects' = connects + 1
  /\ \/ /\ sock' = "socket"
        /\ peer' = "open"
        /\ session_id' = 1
        /\ frame' = [frame EXCEPT ![t].pc = "initialize"]
        /\ UNCHANGED ret
     \/ /\ Return(t, Catch("ConnectionRefusedError"))
        /\ UNCHANGED <<sock, peer, session_id>>
  /\ UNCHANGED <<session, inbuf, sent, written, framed, stream, calls, pre,
                 codec>>

(* start, lines 37-42: initialize is sent and the wait for self._id begins *)
SendInitialize(t) ==
  /\ frame[t].pc = "initialize"
  /\ \/ /\ SendOk(Chars("initialize"), InitializeParams, PyNone)
        /\ frame' = [frame EXCEPT ![t] = EnterWait(frame[t], session_id, "start")]
        /\ UNCHANGED ret
     \/ /\ SendFails
        /\ Return(t, Catch(SendError))
        /\ UNCHANGED sent
  /\ UNCHANGED <<sessionVars, peer, inbuf, connects, written, framed, stream,
                 calls, pre, codec>>

(* _wait_for, lines 61-64 and 78: the loop test and one select round *)
Poll(t) ==
  /\ frame[t].pc = "poll"
  /\ \/ /\ frame[t].elapsed >= MaxPolls
        /\ frame' = [frame EXCEPT ![t] = LeaveWait(frame[t], PyNone)]
     \/ /\ frame[t].elapsed < MaxPolls
        /\ SockReadable
        /\ frame' = [frame EXCEPT ![t].pc = "header"]
     \/ /\ frame[t].elapsed < MaxPolls
        /\ ~SockReadable
        /\ frame' = [frame EXCEPT ![t].elapsed = frame[t].elapsed + 1]
  /\ UNCHANGED <<sessionVars, peer, inbuf, sent, connects, written, framed,
                 stream, calls, ret, pre, codec>>

(* _wait_for, lines 67-73: the header is read a byte at a time and parsed. *)
(* On a connection the peer closed recv(1) returns b"" and the loop spins. *)
RecvHeader(t) ==
  /\ frame[t].pc = "header"
  /\ \/ /\ inbuf # <<>>
        /\ LET r == ReadHeader(frame[t].line, inbuf)
               cl == ContentLength(r.line)
           IN /\ inbuf' = r.buf
              /\ IF ~r.done
                 THEN /\ frame' = [frame EXCEPT ![t].line = r.line]
                      /\ UNCHANGED ret
                 ELSE IF cl.ok
                 THEN /\ frame' = [frame EXCEPT ![t].pc = "body",
                                                ![t].line = <<>>,
                                                ![t].content_length = cl.v]
                      /\ UNCHANGED ret
                 ELSE Return(t, Catch("ValueError"))
     \/ /\ inbuf = <<>>
        /\ peer = "closed"
        /\ frame[t].elapsed < MaxPolls + MaxOverrun
        /\ frame' = [frame EXCEPT ![t].elapsed = frame[t].elapsed + 1]
        /\ UNCHANGED <<inbuf, ret>>
     \/ /\ inbuf = <<>>
        /\ peer = "reset"
        /\ Return(t, Catch("ConnectionResetError"))
        /\ UNCHANGED inbuf
  /\ UNCHANGED <<sessionVars, peer, sent, connects, written, framed, stream,
                 calls, pre, codec>>

(* what recv(content_length) returns, when it returns *)
BodyRead(t) ==
  IF frame[t].content_length = 0 \/ inbuf = <<>>
  THEN [data |-> <<>>, buf |-> inbuf]
  ELSE RecvUpTo(inbuf, frame[t].content_length)

(* _wait_for, lines 74-77: the body is read and parsed, its id compared *)
RecvBody(t) ==
  /\ frame[t].pc = "body"
  /\ \/ /\ frame[t].content_length < 0
        /\ Return(t, Catch("ValueError"))
        /\ UNCHANGED inbuf
     \/ /\ frame[t].content_length >= 0
        /\ (frame[t].content_length > 0 /\ inbuf = <<>>) => peer = "closed"
        /\ LET r == BodyRead(t)
               m == MessageOf(r.data)
               fr == [frame[t] EXCEPT !.decoded = frame[t].decoded + 1,
                                      !.content_length = 0]
           IN /\ inbuf' = r.buf
              /\ IF ~m.ok
                 THEN Return(t, Catch("JSONDecodeError"))
                 ELSE IF IdMatches(m.id, frame[t].target_id)
                 THEN /\ frame' = [frame EXCEPT ![t] = LeaveWait(fr, m.v)]
                      /\ UNCHANGED ret
                 ELSE /\ frame' = [frame EXCEPT ![t] = [fr EXCEPT !.pc = "poll"]]
                      /\ UNCHANGED ret
     \/ /\ frame[t].content_length > 0
        /\ inbuf = <<>>
        /\ peer = "reset"
        /\ Return(t, Catch("ConnectionResetError"))
        /\ UNCHANGED inbuf
  /\ UNCHANGED <<sessionVars, peer, sent, connects, written, framed, stream,
                 calls, pre, codec>>

(* time passes while recv blocks: no byte has arrived, the peer is silent *)
Tick(t) ==
  /\ \/ frame[t].pc = "header"
     \/ frame[t].pc = "body" /\ frame[t].content_length > 0
  /\ inbuf = <<>>
  /\ peer = "open"
  /\ frame[t].elapsed < MaxPolls + MaxOverrun
  /\ frame' = [frame EXCEPT ![t].elapsed = frame[t].elapsed + 1]
  /\ UNCHANGED <<sessionVars, peer, inbuf, sent, connects, written, framed,
                 stream, calls, ret, pre, codec>>

(* start, line 43: the initialized notification *)
SendInitialized(t) ==
  /\ frame[t].pc = "initialized"
  /\ \/ /\ SendOk(Chars("initialized"), PyDict(<<>>), PyNone)
        /\ frame' = [frame EXCEPT ![t].pc = "exists", ![t].waited = PyNone,
                                  ![t].target_id = 0, ![t].caller = "none",
                                  ![t].decoded = 0]
        /\ stream' = Unread(t)
        /\ UNCHANGED ret
     \/ /\ SendFails
        /\ Return(t, Catch(SendError))
        /\ stream' = Unread(t)
        /\ UNCHANGED sent
  /\ UNCHANGED <<sessionVars, peer, inbuf, connects, written, framed, calls, pre,
                 codec>>

(* execute, lines 124-140: the file is checked and read, didOpen is sent *)
CheckFile(t) ==
  /\ frame[t].pc = "exists"
  /\ LET f == frame[t].filepath IN
     \/ /\ ~Exists(f)
        /\ Return(t, ToolResult(PyNone, ErrorText("File does not exist: ", f)))
        /\ UNCHANGED sent
     \/ /\ Exists(f)
        /\ ~Readable(f)
        /\ Return(t, Catch("OSError"))
        /\ UNCHANGED sent
     \/ /\ Exists(f)
        /\ Readable(f)
        /\ SendOk(Chars("textDocument/didOpen"), DidOpenParams(f), PyNone)
        /\ frame' = [frame EXCEPT ![t].pc = "sleep"]
        /\ UNCHANGED ret
     \/ /\ Exists(f)
        /\ Readable(f)
        /\ SendFails
        /\ Return(t, Catch(SendError))
        /\ UNCHANGED sent
  /\ UNCHANGED <<sessionVars, peer, inbuf, connects, written, framed, stream,
                 calls, pre, codec>>

(* execute, lines 142-155, and request, lines 81-83: after the settle delay *)
(* the action is mapped, the next id taken and the request sent            *)
Request(t) ==
  /\ frame[t].pc = "sleep"
  /\ LET a == frame[t] IN
     \/ /\ a.action \in {"hover", "definition"}
        /\ session_id' = NextId(session_id)
        /\ \/ /\ SendOk(MethodOf(a.action),
                        QueryParams(a.filepath, a.line_no, a.character),
                        PyInt(NextId(session_id)))
              /\ frame' = [frame EXCEPT ![t] =
                             EnterWait(a, NextId(session_id), "request")]
              /\ UNCHANGED ret
           \/ /\ SendFails
              /\ Return(t, Catch(SendError))
              /\ UNCHANGED sent
     \/ /\ a.action \notin {"hover", "definition"}
        /\ Return(t, ToolResult(PyNone, ErrorText("Unsupported action: ", a.action)))
        /\ UNCHANGED <<session_id, sent>>
  /\ UNCHANGED <<session, sock, peer, inbuf, connects, written, framed, stream,
                 calls, pre, codec>>

(* an unwrapping that renders the whole reply instead of its result *)
ResultTextWhole(result) == DumpsIndent(result, 2)

(* json.dumps(result.get("result", {}), indent=2) *)
ResultText(result) ==
  DumpsIndent(Get(result, Chars("result"), PyDict(<<>>)), 2)

(* execute, line 157: the reply is unwrapped; None has no get *)
Unwrap(t) ==
  /\ frame[t].pc = "unwrap"
  /\ IF frame[t].waited = PyNone
     THEN Return(t, Catch("AttributeError"))
     ELSE Return(t, ToolResult(PyStr(ResultText(frame[t].waited)), PyNone))
  /\ stream' = Unread(t)
  /\ UNCHANGED <<sessionVars, peer, inbuf, sent, connects, written, framed,
                 calls, pre, codec>>

-----------------------------------------------------------------------------
(* The language server *)

(* the server writes a chunk, which arrives *)
Deliver(c) ==
  /\ peer = "open"
  /\ written < MaxChunks
  /\ written' = written + 1
  /\ inbuf' = inbuf \o c.bytes
  /\ stream' = Append(stream, c.msg)
  /\ framed' = (framed /\ c.msg # PyNone)
  /\ UNCHANGED <<sessionVars, peer, sent, connects, calls, frame, ret, pre,
                 codec>>

(* the server closes its end *)
Close ==
  /\ peer = "open"
  /\ peer' = "closed"
  /\ UNCHANGED <<sessionVars, inbuf, sent, connects, written, framed, stream,
                 calls, frame, ret, pre, codec>>

(* the connection is reset, also after a close: what was in flight is lost *)
Reset ==
  /\ peer \in {"open", "closed"}
  /\ peer' = "reset"
  /\ inbuf' = <<>>
  /\ framed' = FALSE
  /\ UNCHANGED <<sessionVars, sent, connects, written, stream, calls, frame,
                 ret, pre, codec>>

-----------------------------------------------------------------------------
(* One caller at a time: execute is called again only after it returned *)

Callers == {1}

Next ==
  \/ \E t \in Callers, f \in Files, a \in ActionNames, pos \in Positions : Execute(t, f, a, pos)
  \/ \E t \in Callers : Connect(t)
  \/ \E t \in Callers : SendInitialize(t)
  \/ \E t \in Callers : Poll(t)
  \/ \E t \in Callers : RecvHeader(t)
  \/ \E t \in Callers : RecvBody(t)
  \/ \E t \in Callers : Tick(t)
  \/ \E t \in Callers : SendInitialized(t)
  \/ \E t \in Callers : CheckFile(t)
  \/ \E t \in Callers : Request(t)
  \/ \E t \in Callers : Unwrap(t)
  \/ \E c \in Menu : Deliver(c)
  \/ Close
  \/ Reset

Spec == Init /\ [][Next]_vars

-----------------------------------------------------------------------------
(* Properties *)

(* the call of task t has begun / has returned *)
Called(t) == pre[t].filepath # ""
Returned(t) == Called(t) /\ frame[t].pc = "idle"

(* the step is the return of task t's call *)
Returns(t) == frame[t].pc # "idle" /\ frame'[t].pc = "idle"

MethodIs(payload, name) == Get(payload, Chars("method"), PyNone) = PyStr(Chars(name))
IdOf(msg) == Get(msg, Chars("id"), PyNone)
IsQuery(payload) ==
  MethodIs(payload, "textDocument/hover") \/ MethodIs(payload, "textDocument/definition")

(* the rendering of the empty structure *)
EmptyText == <<"{", "}">>

(* C1: when the wait for the reply to a hover or definition request ends    *)
(* with no reply, execute returns a result whose output is the rendering of *)
(* {} and whose error is absent.                                            *)
C1_TimeoutGivesEmptyResult ==
  [][\A t \in Tasks :
       (Returns(t) /\ frame[t].pc = "unwrap" /\ frame[t].waited = PyNone)
       => ret'[t] = ToolResult(PyStr(EmptyText), PyNone)]_vars

(* C2: whenever initialized has been sent, an initialize request carrying   *)
(* id 1 was sent before it.                                                 *)
C2_InitializeWithId1First ==
  \A i \in 1..Len(sent) :
     MethodIs(sent[i], "initialized")
     => \E j \in 1..(i - 1) :
           MethodIs(sent[j], "initialize") /\ IdOf(sent[j]) = PyInt(1)

(* C3: over well-formed frames, _wait_for returns the first frame it reads  *)
(* whose id is the awaited one, as the server wrote it, after skipping the  *)
(* frames with no id or another id; it returns None only when no frame it   *)
(* read matched, and decoding raises nothing.                               *)
C3_WaitReturnsFirstMatch ==
  framed =>
    \A t \in Tasks :
       /\ ret[t] \notin {Catch("ValueError"), Catch("JSONDecodeError")}
       /\ frame[t].pc \in {"initialized", "unwrap"} =>
            LET d == frame[t].decoded
                w == frame[t].waited
                target == PyInt(frame[t].target_id)
            IN /\ d <= Len(stream)
               /\ IF w = PyNone
                  THEN \A i \in 1..d : IdOf(stream[i]) # target
                  ELSE /\ d >= 1
                       /\ w = stream[d]
                       /\ IdOf(w) = target
                       /\ \A i \in 1..(d - 1) : IdOf(stream[i]) # target

(* a late reply to request 2 is skipped and the reply to request 3 returned *)
C3_Witness ==
  \E t \in Tasks :
     /\ framed
     /\ frame[t].pc = "unwrap"
     /\ frame[t].target_id = 3
     /\ frame[t].decoded = 2
     /\ IdOf(stream[1]) = PyInt(2)
     /\ frame[t].waited = ErrorResponse(3)

(* C4: a call never stays in _wait_for beyond the timeout. *)
C4_WaitIsBounded ==
  \A t \in Tasks :
     frame[t].pc \in {"poll", "header", "body"} => frame[t].elapsed <= MaxPolls

(* the rendering of {"contents": "int"} with indent 2 *)
HoverText ==
  <<"{", "\n", " ", " ", "\"", "c", "o", "n", "t", "e", "n", "t", "s", "\"",
    ":", " ", "\"", "i", "n", "t", "\"", "\n", "}">>

(* the payload the caller is to get for a Response of the server *)
ExpectedText(msg) ==
  IF HasKey(msg.v, Chars("result")) /\ Get(msg, Chars("result"), PyNone) = HoverResult
  THEN HoverText ELSE EmptyText

(* the call that made the session sends its query with id 2 *)
FirstQueryHasId2 ==
  \A t \in Tasks :
     (Called(t) /\ pre[t].session = "None")
     => \A i \in (pre[t].sent + 1)..Len(sent) :
           IsQuery(sent[i]) => IdOf(sent[i]) = PyInt(2)

(* C5: the hover or definition request of the call that made the session    *)
(* carries id 2, and                                                        *)
(* a query whose wait read a Response with the request's id returns a       *)
(* result with no error whose output is the rendering of that Response's    *)
(* result, or of {} when it has none.                                       *)
C5_ReplyIsUnwrapped ==
  /\ []FirstQueryHasId2
  /\ [][\A t \in Tasks :
          (Returns(t) /\ frame[t].pc = "unwrap" /\ framed)
          => LET d == frame[t].decoded
                 answers == {i \in 1..d : IdOf(stream[i]) = PyInt(frame[t].target_id)}
                 first == CHOOSE i \in answers : \A j \in answers : i <= j
             IN answers # {}
                => ret'[t] = ToolResult(PyStr(ExpectedText(stream[first])), PyNone)]_vars

(* the end-to-end scenario: the hover request with id 2 returns the rendering *)
(* of {"contents": "int"}                                                     *)
C5_Witness ==
  \E t \in Tasks :
     /\ Returned(t)
     /\ session_id = 2
     /\ ret[t] = ToolResult(PyStr(HoverText), PyNone)

(* C6: every execute call that returns yields a ToolResult with an output   *)
(* or an error, never both and never neither; no exception leaves the call. *)
C6_NoExceptionEscapes ==
  \A t \in Tasks :
     Returned(t) =>
       /\ ret[t].t = "ToolResult"
       /\ (ret[t].output = PyNone) # (ret[t].error = PyNone)

(* a malformed frame ended a call with an error payload *)
C6_Witness ==
  \E t \in Tasks : Returned(t) /\ ret[t] = Catch("JSONDecodeError")

FileNotFound(f) == ToolResult(PyNone, ErrorText("File does not exist: ", f))
Unsupported(a) == ToolResult(PyNone, ErrorText("Unsupported action: ", a))

(* C7: a call on a file that does not exist makes no connection and sends   *)
(* nothing, and returns the file-not-found error.                           *)
C7_MissingFileTouchesNothing ==
  \A t \in Tasks :
     (Called(t) /\ ~Exists(pre[t].filepath)) =>
       /\ connects = pre[t].connects
       /\ Len(sent) = pre[t].sent
       /\ Returned(t) => ret[t] = FileNotFound(pre[t].filepath)

(* C8: a call with an unsupported action takes no request id, sends no      *)
(* request, awaits no reply, and returns the unsupported-action error.      *)
C8_UnsupportedActionFailsFast ==
  \A t \in Tasks :
     (Called(t) /\ pre[t].action \notin {"hover", "definition"}) =>
       /\ session_id = pre[t].session_id
       /\ \A i \in (pre[t].sent + 1)..Len(sent) : IdOf(sent[i]) = PyNone
       /\ frame[t].pc \notin {"poll", "header", "body"}
       /\ Returned(t) => ret[t] = Unsupported(pre[t].action)

(* the handshake was complete when task t's call began *)
HandshakeDoneBefore(t) ==
  \E i \in 1..pre[t].sent : MethodIs(sent[i], "initialized")

(* C9: on a session whose handshake was complete, a call that ends with the *)
(* file-not-found or the unsupported-action error leaves the session, its   *)
(* socket and its id counter as the call found them.                        *)
C9_FailedCallLeavesSession ==
  \A t \in Tasks :
     (/\ Returned(t)
      /\ HandshakeDoneBefore(t)
      /\ ret[t] \in {FileNotFound(pre[t].filepath), Unsupported(pre[t].action)})
     => /\ session = pre[t].session
        /\ sock = pre[t].sock
        /\ session_id = pre[t].session_id
        /\ connects = pre[t].connects

(* after a query that took id 2, a call with an unsupported action returned *)
C9_Witness ==
  \E t \in Tasks :
     /\ Returned(t)
     /\ HandshakeDoneBefore(t)
     /\ pre[t].session_id = 2
     /\ ret[t] = Unsupported("rename")

(* the document messages a Ready session sends *)
IsDocumentMessage(payload) ==
  MethodIs(payload, "textDocument/didOpen") \/ IsQuery(payload)

(* C11: a didOpen, hover or definition message is sent only after the       *)
(* initialized notification has been sent.                                  *)
C11_DocumentMessagesOnlyWhenReady ==
  \A i \in 1..Len(sent) :
     IsDocumentMessage(sent[i])
     => \E j \in 1..(i - 1) : MethodIs(sent[j], "initialized")

(* C12: after a call on a Ready session ended in a transport failure, the   *)
(* next call sends no message on the session's connection.                  *)
C12_ClosedIsTerminal ==
  \A t \in Tasks :
     (Called(t) /\ pre[t].broken) => Len(sent) = pre[t].sent

(* the messages sent that carry an id *)
HasId(payload) == IdOf(payload) # PyNone

(* C13: the ids of the requests sent are strictly increasing, none is above *)
(* the session's counter, and no hover or definition request carries id 1   *)
(* or no id.                                                                *)
C13_RequestIdsIncrease ==
  /\ \A i \in 1..Len(sent) : \A j \in (i + 1)..Len(sent) :
        (HasId(sent[i]) /\ HasId(sent[j])) => IdOf(sent[i]).v < IdOf(sent[j]).v
  /\ \A i \in 1..Len(sent) :
        /\ HasId(sent[i]) => IdOf(sent[i]).v <= session_id
        /\ IsQuery(sent[i]) => (HasId(sent[i]) /\ IdOf(sent[i]).v > 1)

(* a second call, on a session that had used id 2, sent its request with   *)
(* id 3 and timed out                                                       *)
C13_Witness ==
  \E t \in Tasks :
     /\ Returned(t)
     /\ pre[t].session_id = 2
     /\ ret[t] = Catch("AttributeError")
     /\ \E i \in 1..Len(sent) : \E j \in (i + 1)..Len(sent) :
           /\ IsQuery(sent[i]) /\ IdOf(sent[i]) = PyInt(2)
           /\ IsQuery(sent[j]) /\ IdOf(sent[j]) = PyInt(3)

(* the places in sent of the messages of a method *)
SentAt(name) == {i \in 1..Len(sent) : MethodIs(sent[i], name)}

(* C14: one connection is made at most; initialize is sent at most once and *)
(* is the first message sent; initialized is sent at most once.             *)
C14_HandshakeOnce ==
  /\ connects <= 1
  /\ SentAt("initialize") \subseteq {1}
  /\ sent # <<>> => SentAt("initialize") = {1}
  /\ Cardinality(SentAt("initialized")) <= 1

(* two calls have sent their didOpen after the one handshake *)
C14_Witness ==
  /\ calls = 2
  /\ Cardinality(SentAt("textDocument/didOpen")) = 2
  /\ SentAt("initialize") = {1}
  /\ SentAt("initialized") = {2}

(* task t takes a step *)
Steps(t) == frame'[t] # frame[t]

(* C15: when the wait of start for the reply to initialize times out, the   *)
(* call does not end: start goes on to send the initialized notification,   *)
(* which is sent unless the connection is lost, and execute goes on to the  *)
(* file.                                                                    *)
C15_HandshakeSurvivesTimeout ==
  [][\A t \in Tasks :
       /\ (/\ frame[t].pc = "poll"
           /\ frame[t].caller = "start"
           /\ frame[t].elapsed >= MaxPolls
           /\ Steps(t))
          => (frame'[t].pc = "initialized" /\ frame'[t].waited = PyNone /\ ret' = ret)
       /\ (/\ frame[t].pc = "initialized"
           /\ frame[t].waited = PyNone
           /\ ~SendFails
           /\ Steps(t))
          => /\ sent' = Append(sent, Payload(Chars("initialized"), PyDict(<<>>), PyNone))
             /\ frame'[t].pc = "exists"
             /\ ret' = ret]_vars

(* the server has said nothing, and the call has sent initialized, didOpen  *)
(* and its hover request                                                    *)
C15_Witness ==
  \E t \in Tasks :
     /\ written = 0
     /\ frame[t].pc = "poll"
     /\ frame[t].caller = "request"
     /\ Len(sent) = 4
     /\ MethodIs(sent[1], "initialize")
     /\ MethodIs(sent[2], "initialized")
     /\ MethodIs(sent[3], "textDocument/didOpen")
     /\ MethodIs(sent[4], "textDocument/hover")

(* the textDocument of a message's params, and its uri *)
DocOf(payload) ==
  Get(Get(payload, Chars("params"), PyDict(<<>>)), Chars("textDocument"), PyDict(<<>>))
UriOf(payload) == Get(DocOf(payload), Chars("uri"), PyNone)

(* the message sent just before sent[i] is the didOpen of sent[i]'s document *)
FreshDidOpenBefore(i) ==
  /\ i > 1
  /\ MethodIs(sent[i - 1], "textDocument/didOpen")
  /\ UriOf(sent[i - 1]) = UriOf(sent[i])
  /\ UriOf(sent[i]) # PyNone
  /\ Get(DocOf(sent[i - 1]), Chars("version"), PyNone) = PyInt(1)

(* C16: every hover or definition request sent comes right after a didOpen  *)
(* of the same uri with version 1, with no message between them, and is     *)
(* sent by a call that has been through the settle delay.                   *)
C16_DidOpenBeforeEveryQuery ==
  /\ [](\A i \in 1..Len(sent) : IsQuery(sent[i]) => FreshDidOpenBefore(i))
  /\ [][\A t \in Tasks :
          (Steps(t) /\ Len(sent') > Len(sent) /\ IsQuery(sent'[Len(sent')]))
          => frame[t].pc = "sleep"]_vars

(* two calls have each sent a didOpen and then a request *)
C16_Witness ==
  /\ Len(sent) = 6
  /\ IsQuery(sent[4]) /\ FreshDidOpenBefore(4)
  /\ IsQuery(sent[6]) /\ FreshDidOpenBefore(6)

(* create_connection was called and raised: the session has no socket *)
ConnectFailed == connects >= 1 /\ sock = "None"

(* C17: create_connection is called at most once; after it has failed      *)
(* nothing is ever sent, and every call on an existing file that returns    *)
(* yields an error payload and has made no new attempt to connect.          *)
C17_NoReconnect ==
  /\ connects <= 1
  /\ ConnectFailed =>
       /\ sent = <<>>
       /\ \A t \in Tasks :
             (Returned(t) /\ Exists(pre[t].filepath)) =>
               /\ ret[t].t = "ToolResult"
               /\ ret[t].output = PyNone
               /\ ret[t].error # PyNone
               /\ pre[t].connects = 1 => pre[t].sock = "None"

(* a call on a readable file made after the failed attempt ended with the  *)
(* error of _send on a session without a socket                            *)
C17_Witness ==
  \E t \in Tasks :
     /\ Returned(t)
     /\ ConnectFailed
     /\ pre[t].connects = 1
     /\ Readable(pre[t].filepath)
     /\ ret[t] = Catch("RuntimeError")

(* task t's step is the read of a body: recv(content_length) returns *)
ReadsBody(t) ==
  /\ frame[t].pc = "body"
  /\ frame[t].content_length >= 0
  /\ frame'[t].pc # "body"

(* C18: on an open connection the read of a body takes exactly             *)
(* Content-Length bytes from the stream before the body is parsed.          *)
C18_DecodeConsumesOneFrame ==
  [][\A t \in Tasks :
       (ReadsBody(t) /\ peer = "open")
       => Len(inbuf) - Len(inbuf') = frame[t].content_length]_vars

(* task t's step ends its call with an error payload *)
FailsWithError(t) ==
  /\ Returns(t)
  /\ ret'[t].t = "ToolResult"
  /\ ret'[t].output = PyNone
  /\ ret'[t].error # PyNone

(* task t's step follows a header section without Content-Length *)
NoLengthCase(t) ==
  frame[t].pc = "body" /\ frame[t].content_length = 0 /\ Steps(t)

(* task t's step reads a body that does not parse *)
BadBodyCase(t) ==
  ReadsBody(t) /\ ~MessageOf(SubSeq(inbuf, 1, Len(inbuf) - Len(inbuf'))).ok

(* task t's step is a read on a stream the peer closed in the middle of a  *)
(* frame: in a header begun, or in a body of which bytes are missing        *)
ClosedMidFrameCase(t) ==
  /\ peer = "closed"
  /\ Steps(t)
  /\ \/ frame[t].pc = "header" /\ frame[t].line # <<>> /\ inbuf = <<>>
     \/ frame[t].pc = "body" /\ Len(inbuf) < frame[t].content_length

(* C19: a decode of a frame without Content-Length, of a frame whose body   *)
(* does not parse, or on a stream closed in the middle of a frame ends the  *)
(* call with an error payload: no reply is returned and the call does not   *)
(* go on waiting.                                                           *)
C19_DecodeFailuresAreErrors ==
  [][\A t \in Tasks :
       (NoLengthCase(t) \/ BadBodyCase(t) \/ ClosedMidFrameCase(t))
       => FailsWithError(t)]_vars

-----------------------------------------------------------------------------
(* The codec on its own: a message goes through _send's encoder, and the    *)
(* frame through the reader of _wait_for                                    *)

CodecMethods == {"initialize", "initialized", "textDocument/didOpen",
                 "textDocument/hover", "textDocument/definition"}
CodecIds == {PyNone, PyInt(0), PyInt(1), PyInt(2), PyInt(10)}
CodecParams ==
  {PyNone,
   PyDict(<<>>),
   InitializeParams,
   DidOpenParams("/w/a.py"),
   QueryParams("/w/a.py", 15, 22),
   PyDict(<<<<Chars("text"),
              PyStr(<<"\"", "\\", "\r", "\n", "\r", "\n", "U+00E9", ":", "}", "\t">>)>>,
            <<Chars("version"), PyInt(0 - 7)>>>>)}

CodecInit ==
  /\ session = "None"
  /\ sock = "None"
  /\ session_id = 0
  /\ peer = "none"
  /\ inbuf = <<>>
  /\ sent = <<>>
  /\ connects = 0
  /\ written = 0
  /\ framed = TRUE
  /\ stream = <<>>
  /\ calls = 0
  /\ frame = [t \in Tasks |-> IdleFrame]
  /\ ret = [t \in Tasks |-> NoResult]
  /\ pre = [t \in Tasks |-> Snapshot("", "")]
  /\ \E m \in CodecMethods, ps \in CodecParams, id \in CodecIds :
        codec = [pc |-> "payload", method |-> Chars(m), params |-> ps, id |-> id,
                 wire |-> <<>>, buf |-> <<>>, line |-> <<>>, content_length |-> 0,
                 ok |-> TRUE, message |-> PyNone]

(* _send, lines 48-57: the frame is written *)
CodecSend ==
  /\ codec.pc = "payload"
  /\ LET bytes == Frame(Payload(codec.method, codec.params, codec.id))
     IN codec' = [codec EXCEPT !.pc = "header", !.wire = bytes, !.buf = bytes]
  /\ UNCHANGED toolVars

(* _wait_for, lines 65-73: the header is read and parsed *)
CodecHeader ==
  /\ codec.pc = "header"
  /\ LET r == ReadHeader(<<>>, codec.buf)
         cl == ContentLength(r.line)
     IN codec' = [codec EXCEPT !.pc = IF r.done /\ cl.ok THEN "body" ELSE "done",
                               !.ok = r.done /\ cl.ok,
                               !.line = r.line, !.buf = r.buf,
                               !.content_length = IF r.done /\ cl.ok THEN cl.v ELSE 0]
  /\ UNCHANGED toolVars

(* _wait_for, lines 74-75: the body is read and parsed *)
CodecBody ==
  /\ codec.pc = "body"
  /\ LET r == RecvUpTo(codec.buf, codec.content_length)
         m == MessageOf(r.data)
     IN codec' = [codec EXCEPT !.pc = "done", !.ok = m.ok, !.buf = r.buf,
                               !.message = IF m.ok THEN m.v ELSE PyNone]
  /\ UNCHANGED toolVars

CodecNext == CodecSend \/ CodecHeader \/ CodecBody

CodecSpec == CodecInit /\ [][CodecNext]_vars

(* C10: the frame _send writes has a Content-Length equal to the number of  *)
(* bytes of its body, and the reader of _wait_for gets from it a message    *)
(* with the id, the method and the params that were sent.                   *)
C10_FramingRoundTrip ==
  codec.pc = "done" =>
    /\ codec.ok
    /\ codec.content_length = Len(codec.wire) - Len(codec.line)
    /\ codec.buf = <<>>
    /\ Get(codec.message, Chars("method"), PyNone) = PyStr(codec.method)
    /\ Get(codec.message, Chars("params"), PyDict(<<>>)) = codec.params
    /\ IdOf(codec.message) = codec.id
    /\ HasKey(codec.message.v, Chars("id")) = (codec.id # PyNone)

(* a didOpen whose text has a code point above ASCII went through *)
C10_Witness ==
  /\ codec.pc = "done"
  /\ codec.ok
  /\ codec.params = DidOpenParams("/w/a.py")
  /\ codec.id = PyInt(10)

-----------------------------------------------------------------------------
(* Several execute calls on one tool as asyncio tasks.  _send, _wait_for,   *)
(* request and start await nothing that suspends (their socket calls        *)
(* block), so a task yields to the event loop only in asyncio.sleep, line   *)
(* 142.                                                                     *)

(* tasks that could be preempted at any step, as threads are *)
SuspendedAnywhere(t) == TRUE

(* task t is not running: it is in no call, or it is in asyncio.sleep *)
Suspended(t) == frame[t].pc \in {"idle", "sleep"}

(* the event loop can run task t: no other task is running *)
MayRun(t) == \A u \in Tasks \ {t} : Suspended(u)

ConcNext ==
  \/ \E t \in Tasks, f \in Files, a \in ActionNames, pos \in Positions :
        MayRun(t) /\ Execute(t, f, a, pos)
  \/ \E t \in Tasks : MayRun(t) /\ Connect(t)
  \/ \E t \in Tasks : MayRun(t) /\ SendInitialize(t)
  \/ \E t \in Tasks : MayRun(t) /\ Poll(t)
  \/ \E t \in Tasks : MayRun(t) /\ RecvHeader(t)
  \/ \E t \in Tasks : MayRun(t) /\ RecvBody(t)
  \/ \E t \in Tasks : MayRun(t) /\ Tick(t)
  \/ \E t \in Tasks : MayRun(t) /\ SendInitialized(t)
  \/ \E t \in Tasks : MayRun(t) /\ CheckFile(t)
  \/ \E t \in Tasks : MayRun(t) /\ Request(t)
  \/ \E t \in Tasks : MayRun(t) /\ Unwrap(t)
  \/ \E c \in Menu : Deliver(c)
  \/ Close
  \/ Reset

ConcSpec == Init /\ [][ConcNext]_vars

(* task t has sent a request and is in the wait for its reply *)
Outstanding(t) ==
  frame[t].pc \in {"poll", "header", "body"} /\ frame[t].caller = "request"

(* C20: with interleaved tasks, while a request is outstanding every other  *)
(* task is suspended and none of them sends or reads on the connection;     *)
(* the handshake is started once at most; no two requests carry the same    *)
(* id.                                                                      *)
C20_OneRequestOutstanding ==
  /\ [](/\ \A t \in Tasks : Outstanding(t) => MayRun(t)
        /\ connects <= 1
        /\ Cardinality(SentAt("initialize")) <= 1
        /\ \A i \in 1..Len(sent) : \A j \in (i + 1)..Len(sent) :
              (HasId(sent[i]) /\ HasId(sent[j])) => IdOf(sent[i]) # IdOf(sent[j]))
  /\ [][\A t \in Tasks : \A u \in Tasks \ {t} :
          (Outstanding(t) /\ Steps(u)) => (sent' = sent /\ inbuf' = inbuf)]_vars

(* a task is in its settle delay while another task's request, sent after   *)
(* both didOpen notifications, is outstanding                               *)
C20_Witness ==
  \E t \in Tasks : \E u \in Tasks \ {t} :
     /\ Outstanding(t)
     /\ frame[u].pc = "sleep"
     /\ Len(sent) = 5
     /\ MethodIs(sent[3], "textDocument/didOpen")
     /\ MethodIs(sent[4], "textDocument/didOpen")
     /\ IsQuery(sent[5])

====
